---- MODULE Spec2Model ----
(***************************************************************************)
(* A model of lib/codespell.py: the identifier tokenizer and exclusion     *)
(* engine (CodeChecker.split, set_language, exclude_string), the file scan *)
(* (_send_words), the conversation with ispell over two pipes              *)
(* (SpellChecker.send, done_sending, check) and the report (_check).       *)
(*                                                                         *)
(* Text is modelled as sequences of one-character strings, so that the     *)
(* regular expressions, str.split and the message formatting are computed  *)
(* character by character as the code computes them.                       *)
(***************************************************************************)
EXTENDS Integers, Sequences, FiniteSets, TLC

VARIABLES
    file,            \* self.file: the lines of the file being read
    line_num,        \* self.line_num
    locations,       \* self.locations: word -> list of line numbers
    language,        \* self.language ("None" when unset)
    custom_exclude,  \* self.custom_exclude
    exclude,         \* self.exclude
    exclude_re,      \* self.exclude_re: <<>> for None, <<alternatives>> once compiled
    unique,          \* self.unique
    pending,         \* _send_words: the words of the current line still to handle
    ispell_in,       \* request lines written to ispell's stdin and not yet read by it
    in_closed,       \* ispell_in has been closed (done_sending)
    ispell_out,      \* lines written by ispell and not yet read by check()
    out_closed,      \* ispell has exited: its end of ispell_out is closed
    hold,            \* ispell: the verdict line it is about to write (<<>> if none)
    report,          \* check(): the list 'report'
    messages,        \* _check: the findings, in the order they are written
    result,          \* _check: its return value
    pc,              \* where the caller is
    exc,             \* the exception that ended the last call ("none" if it returned)
    line,            \* split(): its argument
    words,           \* split(): its result
    spans,           \* split(): the (start, length) of every match of _word_re
    emitted,         \* history: every (word, line number) split() gave _send_words
    sentLog,         \* history: every word passed to SpellChecker.send, in order
    events,          \* history: "send", "close" and "read" in the order they happened
    wire             \* history: everything ispell wrote, in order

cfgVars   == <<language, custom_exclude, exclude, exclude_re, unique>>
splitVars == <<line, words, spans>>
fileVars  == <<file, line_num, locations, pending, emitted, sentLog>>
pipeVars  == <<ispell_in, in_closed, ispell_out, out_closed, hold>>
outVars   == <<report, messages, result>>
vars      == <<file, line_num, locations, language, custom_exclude, exclude,
               exclude_re, unique, pending, ispell_in, in_closed, ispell_out,
               out_closed, hold, report, messages, result, pc, exc, line, words,
               spans, emitted, sentLog, events, wire>>

---------------------------------------------------------------------------
(* Bounds of the model.                                                    *)

MaxLen == 4        \* longest identifier given to split() in SpecTokenize
MaxCustom == 2     \* most exclude_string calls on one CodeChecker
MaxLines == 2      \* most lines in a file
MaxStream == 2     \* most lines ispell writes in SpecParse
PipeCap == 1       \* lines a pipe holds before a write to it blocks

---------------------------------------------------------------------------
(* Characters.                                                             *)

Lower == {"a","b","c","d","e","f","g","h","i","j","k","l","m",
          "n","o","p","q","r","s","t","u","v","w","x","y","z"}
Upper == {"A","B","C","D","E","F","G","H","I","J","K","L","M",
          "N","O","P","Q","R","S","T","U","V","W","X","Y","Z"}
Digit == {"0","1","2","3","4","5","6","7","8","9"}
Letter == Lower \cup Upper
\* \w of Python's re module on ASCII text
WordChar == Letter \cup Digit \cup {"_"}
\* the characters str.split() treats as whitespace
Space == {" ", "\t", "\n"}

None == "None"

SeqMax(S) == CHOOSE m \in S : \A k \in S : k <= m

RECURSIVE Concat(_)
Concat(ss) == IF ss = <<>> THEN <<>> ELSE Head(ss) \o Concat(Tail(ss))

RECURSIVE RunLen(_, _, _)
\* how many characters of s, from position i on, lie in the class C
RunLen(s, i, C) ==
    IF i > Len(s) \/ s[i] \notin C THEN 0 ELSE 1 + RunLen(s, i + 1, C)

InClassAt(s, i, C) == i >= 1 /\ i <= Len(s) /\ s[i] \in C

---------------------------------------------------------------------------
(* _word_re = [A-Z]?[a-z]+|[A-Z]+(?![a-z])                                 *)

\* the first alternative at position i: the length it matches, 0 if it fails
TitleMatch(s, i) ==
    IF InClassAt(s, i, Upper) /\ RunLen(s, i + 1, Lower) > 0
    THEN 1 + RunLen(s, i + 1, Lower)
    ELSE RunLen(s, i, Lower)

\* the second alternative without its lookahead (a plausible slip)
AcronymMatch_NoLookahead(s, i) == RunLen(s, i, Upper)

\* the second alternative at position i: the greedy run of capitals, given
\* back one at a time until the lookahead (?![a-z]) holds
AcronymMatch(s, i) ==
    LET ks == {k \in 1..RunLen(s, i, Upper) : ~InClassAt(s, i + k, Lower)}
    IN  IF ks = {} THEN 0 ELSE SeqMax(ks)

word_re_match(s, i) ==
    IF TitleMatch(s, i) > 0 THEN TitleMatch(s, i) ELSE AcronymMatch(s, i)

RECURSIVE word_re_finditer(_, _)
\* the matches of _word_re in s from position i on, as <<start, length>>
word_re_finditer(s, i) ==
    IF i > Len(s) THEN <<>>
    ELSE LET n == word_re_match(s, i)
         IN  IF n = 0 THEN word_re_finditer(s, i + 1)
             ELSE <<<<i, n>>>> \o word_re_finditer(s, i + n)

word_re_findall(s) ==
    LET ms == word_re_finditer(s, 1)
    IN  [k \in 1..Len(ms) |-> SubSeq(s, ms[k][1], ms[k][1] + ms[k][2] - 1)]

---------------------------------------------------------------------------
(* exclude_re = \b(e1|e2|...)\b and exclude_re.sub('', line)               *)

\* \b between positions i-1 and i of s
Boundary(s, i) == InClassAt(s, i - 1, WordChar) # InClassAt(s, i, WordChar)

LiteralAt(s, i, e) ==
    i + Len(e) - 1 <= Len(s) /\ SubSeq(s, i, i + Len(e) - 1) = e

\* the length exclude_re matches at position i, -1 if it does not match:
\* the first alternative, in the order written, that fits between two \b
exclude_re_match(alts, s, i) ==
    LET ok == {k \in 1..Len(alts) :
                   /\ Boundary(s, i)
                   /\ LiteralAt(s, i, alts[k])
                   /\ Boundary(s, i + Len(alts[k]))}
    IN  IF ok = {} THEN -1
        ELSE Len(alts[CHOOSE k \in ok : \A j \in ok : k <= j])

RECURSIVE exclude_re_sub(_, _, _)
exclude_re_sub(alts, s, i) ==
    IF i > Len(s) THEN <<>>
    ELSE LET n == exclude_re_match(alts, s, i)
         IN  IF n <= 0 THEN <<s[i]>> \o exclude_re_sub(alts, s, i + 1)
             ELSE exclude_re_sub(alts, s, i + n)

\* the text _word_re is run on: line 302-303 of split()
Stripped(re, text) ==
    IF re # <<>> THEN exclude_re_sub(re[1], text, 1) ELSE text

\* CodeChecker.split
split(re, excl, text) ==
    SelectSeq(word_re_findall(Stripped(re, text)), LAMBDA w : w \notin excl)

---------------------------------------------------------------------------
(* SpecTokenize: split() as a function of its argument, on a CodeChecker   *)
(* for which no language was selected (exclude_re is None, exclude empty). *)

IdentAlphabet == {"a", "b", "A", "B", "1", "_"}

RECURSIVE Strings(_, _)
\* every string over the alphabet A of length at most n
Strings(A, n) ==
    IF n = 0 THEN {<<>>}
    ELSE LET shorter == Strings(A, n - 1)
         IN  shorter \cup {Append(s, c) : s \in shorter, c \in A}

getRemaningObjects ==
    <<"g","e","t","R","e","m","a","n","i","n","g","O","b","j","e","c","t","s">>
HTTPResponse == <<"H","T","T","P","R","e","s","p","o","n","s","e">>
getHTTPResponse == <<"g","e","t">> \o HTTPResponse
SOME_CONSTENT == <<"S","O","M","E","_","C","O","N","S","T","E","N","T">>

Identifiers ==
    Strings(IdentAlphabet, MaxLen)
        \cup {getRemaningObjects, HTTPResponse, getHTTPResponse, SOME_CONSTENT}

Idle ==
    /\ file = <<>> /\ line_num = 0 /\ locations = <<>> /\ pending = <<>>
    /\ emitted = <<>> /\ sentLog = <<>>
    /\ ispell_in = <<>> /\ in_closed = FALSE /\ ispell_out = <<>>
    /\ out_closed = FALSE /\ hold = <<>>
    /\ report = <<>> /\ messages = <<>> /\ result = FALSE
    /\ exc = "none" /\ events = <<>> /\ wire = <<>>

InitTokenize ==
    /\ Idle
    /\ language = None /\ custom_exclude = <<>> /\ exclude = {}
    /\ exclude_re = <<>> /\ unique = FALSE
    /\ line \in Identifiers /\ words = <<>> /\ spans = <<>>
    /\ pc = "call"

\* one call of split(line)
Tokenize ==
    /\ pc = "call"
    /\ words' = split(exclude_re, exclude, line)
    /\ spans' = word_re_finditer(Stripped(exclude_re, line), 1)
    /\ pc' = "returned"
    /\ UNCHANGED <<cfgVars, fileVars, pipeVars, outVars, exc, events, wire, line>>

SpecTokenize == InitTokenize /\ [][Tokenize]_vars

---------------------------------------------------------------------------
(* Claims about split() as a tokenizer.                                    *)

AllIn(w, C) == \A k \in 1..Len(w) : w[k] \in C

\* an optional capital followed by one or more small letters
IsTitleWord(w) ==
    \/ Len(w) >= 1 /\ AllIn(w, Lower)
    \/ Len(w) >= 2 /\ w[1] \in Upper /\ AllIn(Tail(w), Lower)

\* a run of capitals
IsAcronymWord(w) == Len(w) >= 1 /\ AllIn(w, Upper)

get == <<"g","e","t">>
Remaning == <<"R","e","m","a","n","i","n","g">>
Objects == <<"O","b","j","e","c","t","s">>
HTTP == <<"H","T","T","P">>
Response == <<"R","e","s","p","o","n","s","e">>
SOME == <<"S","O","M","E">>
CONSTENT == <<"C","O","N","S","T","E","N","T">>

\* C1: for an input of letters, digits and underscores, split() with no
\* exclusions configured emits, left to right and without overlap, non-empty
\* alphabetic words, each either an optional capital followed by small
\* letters or a run of capitals not followed by a small letter; the emitted
\* words concatenated are the input with every non-letter removed; and the
\* four identifiers of the documentation split as documented.
C1_TokenizerWords ==
    pc = "returned" =>
        /\ Len(spans) = Len(words)
        /\ \A k \in 1..Len(words) :
              LET start == spans[k][1]
                  stop == spans[k][1] + spans[k][2]
              IN  /\ words[k] = SubSeq(line, start, stop - 1)
                  /\ words[k] # <<>>
                  /\ AllIn(words[k], Letter)
                  /\ \/ IsTitleWord(words[k])
                     \/ IsAcronymWord(words[k]) /\ ~InClassAt(line, stop, Lower)
                  /\ k < Len(words) => stop <= spans[k + 1][1]
        /\ Concat(words) = SelectSeq(line, LAMBDA c : c \in Letter)
        /\ line = getRemaningObjects => words = <<get, Remaning, Objects>>
        /\ line = HTTPResponse => words = <<HTTP, Response>>
        /\ line = getHTTPResponse => words = <<get, HTTP, Response>>
        /\ line = SOME_CONSTENT => words = <<SOME, CONSTENT>>

\* an acronym run has given back its last capital to the word that follows
C1_Witness ==
    /\ pc = "returned"
    /\ line = getHTTPResponse
    /\ words = <<get, HTTP, Response>>

---------------------------------------------------------------------------
(* The exclusion tables and the calls that configure a CodeChecker.        *)

BASE_EXCLUDE ==
    << <<"u","s","r">>,
       <<"a","r","g","v">>,
       <<"s","t","r","e","r","r","o","r">>,
       <<"e","r","r","n","o">>,
       <<"s","t","d","o","u","t">>,
       <<"s","t","d","e","r","r">>,
       <<"r","e","a","d","l","i","n","e">>,
       <<"i","n","t">>,
       <<"c","h","a","r">>,
       <<"b","o","o","l">> >>

LANG_EXCLUDE ==
    [python |-> << <<"d","e","f">>,
                   <<"e","l","i","f">>,
                   <<"s","y","s">>,
                   <<"o","s">>,
                   <<"s","t","a","r","t","s","w","i","t","h">>,
                   <<"e","n","d","s","w","i","t","h">>,
                   <<"o","p","t","p","a","r","s","e">>,
                   <<"p","r","o","g">>,
                   <<"a","r","g","s">>,
                   <<"m","e","t","a","v","a","r">> >>,
     c      |-> <<>>,
     java   |-> <<>>,
     perl   |-> <<>>]

EXTENSION_LANG ==
    [x \in {".py", ".c", ".h", ".cpp", ".hpp", ".java"} |->
        CASE x = ".py"   -> "python"
          [] x = ".java" -> "java"
          [] OTHER       -> "c"]

Range(s) == {s[k] : k \in 1..Len(s)}

\* what set_language(lang) assigns, given self.custom_exclude
Configured(lang, custom) ==
    LET exclusions == BASE_EXCLUDE \o LANG_EXCLUDE[lang] \o custom
    IN  [language |-> lang, exclude_re |-> <<exclusions>>,
         exclude |-> Range(exclusions)]

\* the fields __init__ leaves for a file name with extension ext
Constructed(ext) ==
    IF ext \in DOMAIN EXTENSION_LANG
    THEN Configured(EXTENSION_LANG[ext], <<>>)
    ELSE [language |-> None, exclude_re |-> <<>>, exclude |-> {}]

\* extensions of the file names given to the constructor
Extensions == {".py", ".c", ".txt"}

\* CodeChecker.__init__
InitChecker ==
    /\ \E ext \in Extensions :
          /\ language = Constructed(ext).language
          /\ exclude_re = Constructed(ext).exclude_re
          /\ exclude = Constructed(ext).exclude
    /\ custom_exclude = <<>>
    /\ unique = FALSE
    /\ line_num = 0
    /\ locations = <<>>

\* CodeChecker.exclude_string
exclude_string(string) ==
    /\ pc \in {"setup", "split"}
    /\ Len(custom_exclude) < MaxCustom
    /\ custom_exclude' = Append(custom_exclude, string)
    /\ pc' = "setup"
    /\ exc' = "none"
    /\ UNCHANGED <<language, exclude, exclude_re, unique, splitVars, fileVars,
                   pipeVars, outVars, events, wire>>

\* CodeChecker.set_language
set_language(lang) ==
    /\ pc \in {"setup", "split"}
    /\ pc' = "setup"
    /\ IF lang \notin DOMAIN LANG_EXCLUDE
       THEN /\ exc' = "ValueError"
            /\ UNCHANGED <<language, exclude, exclude_re>>
       ELSE /\ exc' = "none"
            /\ language' = Configured(lang, custom_exclude).language
            /\ exclude_re' = Configured(lang, custom_exclude).exclude_re
            /\ exclude' = Configured(lang, custom_exclude).exclude
    /\ UNCHANGED <<custom_exclude, unique, splitVars, fileVars, pipeVars,
                   outVars, events, wire>>

\* CodeChecker.split, called from outside
call_split(text) ==
    /\ pc \in {"setup", "split"}
    /\ line' = text
    /\ words' = split(exclude_re, exclude, text)
    /\ spans' = word_re_finditer(Stripped(exclude_re, text), 1)
    /\ pc' = "split"
    /\ exc' = "none"
    /\ UNCHANGED <<cfgVars, fileVars, pipeVars, outVars, events, wire>>

---------------------------------------------------------------------------
(* SpecExclude: a CodeChecker driven by exclude_string, set_language and   *)
(* split calls in any order.                                               *)

foo == <<"f","o","o">>
WhizzBANGulator == <<"W","h","i","z","z","B","A","N","G","u","l","a","t","o","r">>
CustomStrings == {foo, WhizzBANGulator}

LanguageNames == {"python", "c", "java", "perl", "cobol"}

ExcludeTexts ==
    { <<"i","n","t">>,
      <<"x"," ","="," ","i","n","t","(","y",")">>,
      <<"p","a","r","s","e","_","a","r","g","s","(","a","r","g","v",")">>,
      <<"f","o","o","_","b","a","r"," ","="," ","t","e","h">>,
      <<"W","h","i","z","z","B","A","N","G","u","l","a","t","o","r"," ","x">>,
      <<"d","e","f"," ","f","o","o">> }

InitExclude ==
    /\ InitChecker
    /\ file = <<>> /\ pending = <<>> /\ emitted = <<>> /\ sentLog = <<>>
    /\ ispell_in = <<>> /\ in_closed = FALSE /\ ispell_out = <<>>
    /\ out_closed = FALSE /\ hold = <<>>
    /\ report = <<>> /\ messages = <<>> /\ result = FALSE
    /\ exc = "none" /\ events = <<>> /\ wire = <<>>
    /\ line = <<>> /\ words = <<>> /\ spans = <<>>
    /\ pc = "setup"

NextExclude ==
    \/ \E s \in CustomStrings : exclude_string(s)
    \/ \E l \in LanguageNames : set_language(l)
    \/ \E t \in ExcludeTexts : call_split(t)

SpecExclude == InitExclude /\ [][NextExclude]_vars

\* the strings the claim counts as excluded: the base list, the selected
\* language's list and every string passed to exclude_string so far
ClaimedExcluded ==
    Range(BASE_EXCLUDE)
        \cup (IF language = None THEN {} ELSE Range(LANG_EXCLUDE[language]))
        \cup Range(custom_exclude)

\* C2: after any sequence of exclude_string and set_language calls, split()
\* returns no word that is an entry of the base list, an entry of the
\* selected language's list or a string passed to exclude_string before.
C2_ExcludedNeverEmitted ==
    pc = "split" => \A k \in 1..Len(words) : words[k] \notin ClaimedExcluded

\* what the code does guarantee: no word of the result is in self.exclude
C2_ExcludeSetFiltered ==
    pc = "split" => \A k \in 1..Len(words) : words[k] \notin exclude

---------------------------------------------------------------------------
(* The string operations check() uses.                                     *)

RECURSIVE FieldLen(_, _)
\* how many characters of s, from position i on, are not whitespace
FieldLen(s, i) ==
    IF i > Len(s) \/ s[i] \in Space THEN 0 ELSE 1 + FieldLen(s, i + 1)

RECURSIVE split_ws(_, _, _)
\* s[i:].split(None, maxsplit): fields between runs of whitespace; once
\* maxsplit fields are cut, the rest (leading whitespace dropped) is one field
split_ws(s, i, maxsplit) ==
    LET j == i + RunLen(s, i, Space)
    IN  IF j > Len(s) THEN <<>>
        ELSE IF maxsplit = 0 THEN <<SubSeq(s, j, Len(s))>>
        ELSE <<SubSeq(s, j, j + FieldLen(s, j) - 1)>>
                 \o split_ws(s, j + FieldLen(s, j), maxsplit - 1)

RECURSIVE split_sep(_, _)
\* s.split(sep) for a non-empty separator: empty pieces are kept
split_sep(s, sep) ==
    LET at == {i \in 1..Len(s) : LiteralAt(s, i, sep)}
    IN  IF at = {} THEN <<s>>
        ELSE LET i == CHOOSE i \in at : \A j \in at : i <= j
             IN  <<SubSeq(s, 1, i - 1)>>
                     \o split_sep(SubSeq(s, i + Len(sep), Len(s)), sep)

RECURSIVE join(_, _)
\* sep.join(pieces)
join(sep, pieces) ==
    IF pieces = <<>> THEN <<>>
    ELSE IF Len(pieces) = 1 THEN pieces[1]
    ELSE pieces[1] \o sep \o join(sep, Tail(pieces))

\* whether int(tok) returns: an optional sign, then digits
IsInt(tok) ==
    LET body == IF tok # <<>> /\ tok[1] \in {"+", "-"} THEN Tail(tok) ELSE tok
    IN  body # <<>> /\ AllIn(body, Digit)

CommaSpace == <<",", " ">>

---------------------------------------------------------------------------
(* SpellChecker.check: one line of ispell's output.                        *)

Returned(vs) == [exc |-> "none", verdicts |-> vs]
Raised(e) == [exc |-> e, verdicts |-> <<>>]

\* lines 92-95 without the int(count) (a plausible slip)
ParseNear_NoInt(extra) ==
    LET fields == split_ws(extra, 1, 3)
    IN  IF Len(fields) # 4 THEN Raised("ValueError")
        ELSE Returned(<< <<fields[1], split_sep(fields[4], CommaSpace)>> >>)

\* lines 92-95: a "&" or "?" line
ParseNear(extra) ==
    LET fields == split_ws(extra, 1, 3)
    IN  IF Len(fields) # 4 THEN Raised("ValueError")
        ELSE IF ~IsInt(fields[2]) THEN Raised("ValueError")
        ELSE Returned(<< <<fields[1], split_sep(fields[4], CommaSpace)>> >>)

\* lines 98-99: a "#" line
ParseNone(extra) ==
    LET fields == split_ws(extra, 1, Len(extra))
    IN  IF fields = <<>> THEN Raised("IndexError")
        ELSE Returned(<< <<fields[1], <<>> >> >>)

\* lines 83-99: what one line adds to 'report', or the exception it raises
ParseLine(l) ==
    LET code == l[1]
        extra == SubSeq(l, 2, Len(l) - 1)
    IN  IF code \in {"&", "?"} THEN ParseNear(extra)
        ELSE IF code = "#" THEN ParseNone(extra)
        ELSE Returned(<<>>)

\* a loop of check() that stops at the first blank line (a plausible slip)
check_readline_StopAtBlank ==
    /\ pc = "check"
    /\ ispell_out # <<>>
    /\ LET l == Head(ispell_out).line
           r == ParseLine(l)
       IN  /\ ispell_out' = Tail(ispell_out)
           /\ events' = Append(events, "read")
           /\ IF r.exc = "none"
              THEN /\ report' = report \o r.verdicts
                   /\ pc' = IF l = <<"\n">> THEN "checked" ELSE pc
                   /\ exc' = exc
              ELSE /\ pc' = "raised"
                   /\ exc' = r.exc
                   /\ report' = report
    /\ UNCHANGED <<cfgVars, splitVars, fileVars, ispell_in, in_closed,
                   out_closed, hold, messages, result, wire>>

\* check(), lines 79-99: readline() returns a line
check_readline ==
    /\ pc = "check"
    /\ ispell_out # <<>>
    /\ LET r == ParseLine(Head(ispell_out).line)
       IN  /\ ispell_out' = Tail(ispell_out)
           /\ events' = Append(events, "read")
           /\ IF r.exc = "none"
              THEN /\ report' = report \o r.verdicts
                   /\ pc' = pc
                   /\ exc' = exc
              ELSE /\ pc' = "raised"
                   /\ exc' = r.exc
                   /\ report' = report
    /\ UNCHANGED <<cfgVars, splitVars, fileVars, ispell_in, in_closed,
                   out_closed, hold, messages, result, wire>>

\* check(), lines 79-81 and 101-102: readline() returns '' at end of stream
check_eof ==
    /\ pc = "check"
    /\ ispell_out = <<>>
    /\ out_closed
    /\ pc' = "checked"
    /\ events' = Append(events, "read")
    /\ UNCHANGED <<cfgVars, splitVars, fileVars, pipeVars, outVars, exc, wire>>

---------------------------------------------------------------------------
(* ispell -a in terse mode, as check() sees it: the lines it writes.       *)

DigitChars == <<"0","1","2","3","4","5","6","7","8","9">>

\* the line ispell writes for a rejected word: "& word count offset: a, b"
\* when it has suggestions, "# word offset" when it has none
VerdictLine(w, guesses) ==
    IF guesses = <<>>
    THEN <<"#", " ">> \o w \o <<" ", "1", "\n">>
    ELSE <<"&", " ">> \o w \o <<" ", DigitChars[Len(guesses) + 1], " ", "1", ":", " ">>
             \o join(CommaSpace, guesses) \o <<"\n">>

\* a line on the wire, with the verdict the protocol gives it (<<>> if none)
\* and its shape: "ok" a verdict line of the documented shape, "ignored" a
\* line with another marker or a blank line, "malformed" a line with a
\* verdict marker that has not the documented shape
Verdict(w, guesses) ==
    [line |-> VerdictLine(w, guesses), verdict |-> << <<w, guesses>> >>,
     shape |-> "ok"]
Literal(l, v, sh) == [line |-> l, verdict |-> v, shape |-> sh]

ab == <<"a","b">>
cd == <<"c","d">>
ef == <<"e","f">>
recieve == <<"r","e","c","i","e","v","e">>
receive == <<"r","e","c","e","i","v","e">>
relieve == <<"r","e","l","i","e","v","e">>
gnarbuckle == <<"g","n","a","r","b","u","c","k","l","e">>

\* "& recieve 2 10: receive, relieve"
RecieveLine ==
    <<"&"," ","r","e","c","i","e","v","e"," ","2"," ","1","0",":"," ",
      "r","e","c","e","i","v","e",","," ","r","e","l","i","e","v","e","\n">>
\* "# gnarbuckle 0"
GnarbuckleLine == <<"#"," ","g","n","a","r","b","u","c","k","l","e"," ","0","\n">>

WellFormedLines ==
    { Verdict(ab, <<>>), Verdict(ab, <<cd>>), Verdict(ab, <<cd, ef>>),
      Literal(RecieveLine, << <<recieve, <<receive, relieve>> >> >>, "ok"),
      Literal(GnarbuckleLine, << <<gnarbuckle, <<>> >> >>, "ok"),
      \* "? ab 0 3: cd"
      Literal(<<"?"," ","a","b"," ","0"," ","3",":"," ","c","d","\n">>,
              << <<ab, <<cd>> >> >>, "ok") }

IgnoredLines ==
    { Literal(<<"*", "\n">>, <<>>, "ignored"),
      Literal(<<"\n">>, <<>>, "ignored") }

MalformedLines ==
    { \* "& ab 2 zz: cd, ef": the offset is not a number
      Literal(<<"&"," ","a","b"," ","2"," ","z","z",":"," ","c","d",","," ","e","f","\n">>,
              <<>>, "malformed"),
      \* "& ab x 3: cd": the count is not a number
      Literal(<<"&"," ","a","b"," ","x"," ","3",":"," ","c","d","\n">>, <<>>, "malformed"),
      \* "& ab 1": no offset, no suggestions
      Literal(<<"&"," ","a","b"," ","1","\n">>, <<>>, "malformed"),
      \* "& ab 1 3:": no suggestions
      Literal(<<"&"," ","a","b"," ","1"," ","3",":","\n">>, <<>>, "malformed"),
      \* "& ab 1 3 cd": no colon after the offset
      Literal(<<"&"," ","a","b"," ","1"," ","3"," ","c","d","\n">>, <<>>, "malformed"),
      \* "# ab": no trailing text
      Literal(<<"#"," ","a","b","\n">>, <<>>, "malformed"),
      \* "#": no word
      Literal(<<"#","\n">>, <<>>, "malformed") }

ParseLines == WellFormedLines \cup IgnoredLines \cup MalformedLines

---------------------------------------------------------------------------
(* SpecParse: check() reading whatever a process at the other end of the   *)
(* pipe writes, after done_sending().                                      *)

InitParse ==
    /\ InitChecker
    /\ file = <<>> /\ pending = <<>> /\ emitted = <<>> /\ sentLog = <<>>
    /\ ispell_in = <<>> /\ in_closed = TRUE /\ ispell_out = <<>>
    /\ out_closed = FALSE /\ hold = <<>>
    /\ report = <<>> /\ messages = <<>> /\ result = FALSE
    /\ exc = "none" /\ events = <<"close">> /\ wire = <<>>
    /\ line = <<>> /\ words = <<>> /\ spans = <<>>
    /\ pc = "check"

\* the process writes one more line
emit(item) ==
    /\ ~out_closed
    /\ Len(wire) < MaxStream
    /\ Len(ispell_out) < PipeCap
    /\ ispell_out' = Append(ispell_out, item)
    /\ wire' = Append(wire, item)
    /\ UNCHANGED <<cfgVars, splitVars, fileVars, ispell_in, in_closed,
                   out_closed, hold, outVars, pc, exc, events>>

\* the process exits
exit ==
    /\ ~out_closed
    /\ out_closed' = TRUE
    /\ UNCHANGED <<cfgVars, splitVars, fileVars, ispell_in, in_closed,
                   ispell_out, hold, outVars, pc, exc, events, wire>>

NextParse ==
    \/ \E item \in ParseLines : emit(item)
    \/ exit
    \/ check_readline
    \/ check_eof

SpecParse == InitParse /\ [][NextParse]_vars

\* the lines check() has read so far
LinesRead == SubSeq(wire, 1, Len(wire) - Len(ispell_out))

\* the starts of the whitespace-separated fields of s
FieldStarts(s) ==
    {i \in 1..Len(s) : s[i] \notin Space /\ (i = 1 \/ s[i - 1] \in Space)}

\* the k-th whitespace-separated field of s
Field(s, k) ==
    LET i == CHOOSE i \in FieldStarts(s) :
                 Cardinality({j \in FieldStarts(s) : j <= i}) = k
    IN  SubSeq(s, i, i + FieldLen(s, i) - 1)

\* a line check() cannot decode: a "&" or "?" line with fewer than four
\* fields after the marker or a count that is no integer, a "#" line with
\* no field after the marker
Undecodable(l) ==
    LET extra == SubSeq(l, 2, Len(l) - 1)
        n == Cardinality(FieldStarts(extra))
    IN  \/ l[1] \in {"&", "?"} /\ (n < 4 \/ ~IsInt(Field(extra, 2)))
        \/ l[1] = "#" /\ n = 0

\* C7 as claimed: once check() has read a line with a verdict marker that
\* has not the documented shape, it has failed with an error, and it never
\* returns a report.
C7_MalformedAlwaysFails ==
    (\E k \in 1..Len(LinesRead) : LinesRead[k].shape = "malformed")
        => pc = "raised" /\ exc # "none"

\* C7 as amended: once check() has read a "&" or "?" line with fewer than
\* four whitespace-separated fields after the marker or with a count that
\* is no integer, or a "#" line with nothing after the marker, it has
\* failed with an error, and it never returns a report.
C7_UndecodableFails ==
    (\E k \in 1..Len(LinesRead) : Undecodable(LinesRead[k].line))
        => pc = "raised" /\ exc \in {"ValueError", "IndexError"}

\* check() has failed on "& ab x 3: cd"
C7_Witness ==
    /\ pc = "raised"
    /\ exc = "ValueError"
    /\ LinesRead # <<>>
    /\ LinesRead[Len(LinesRead)].line =
           <<"&"," ","a","b"," ","x"," ","3",":"," ","c","d","\n">>

\* C8: when every verdict line has the documented shape, check() returns
\* only at the end of the stream, and its report holds, in arrival order,
\* one verdict per "&", "?" or "#" line: the word with its suggestions in
\* their order for "&" and "?", the word with no suggestion for "#"; blank
\* lines and lines with another marker add nothing and do not end the
\* reading.
C8_ReportIsVerdictsInOrder ==
    (pc = "checked" /\ \A k \in 1..Len(wire) : wire[k].shape # "malformed")
        => /\ out_closed /\ ispell_out = <<>>
           /\ report = Concat([k \in 1..Len(wire) |-> wire[k].verdict])

\* check() has returned after a blank line followed by the documented
\* "& recieve ..." line
C8_Witness ==
    /\ pc = "checked"
    /\ Len(wire) = 2
    /\ wire[1].line = <<"\n">>
    /\ wire[2].line = RecieveLine
    /\ report = << <<recieve, <<receive, relieve>> >> >>

---------------------------------------------------------------------------
(* The file scan: CodeChecker._send_words and guess_language.              *)

Contains(s, e) == \E i \in 1..Len(s) : LiteralAt(s, i, e)

\* guess_language(first_line): the language it selects, None if it
\* selects none
guess_language(first_line) ==
    IF ~LiteralAt(first_line, 1, <<"#", "!">>) THEN None
    ELSE IF Contains(first_line, <<"p","y","t","h","o","n">>) THEN "python"
    ELSE IF Contains(first_line, <<"p","e","r","l">>) THEN "perl"
    ELSE None

\* the test of line 314 without 'self.language is None' (a plausible slip)
ShouldGuess_AnyLanguage(n, lang) == n = 0

\* line 314: whether _send_words guesses the language from this line
ShouldGuess(n, lang) == n = 0 /\ lang = None

\* the fields in effect once line 314-315 have run on the line l
AfterGuess(l) ==
    IF ShouldGuess(line_num, language) /\ guess_language(l) # None
    THEN Configured(guess_language(l), custom_exclude)
    ELSE [language |-> language, exclude_re |-> exclude_re, exclude |-> exclude]

\* lines 319-322 with the list replaced, not extended (a plausible slip)
Recorded_Overwrite(locs, w, n) ==
    [x \in DOMAIN locs \cup {w} |-> IF x = w THEN <<n>> ELSE locs[x]]

\* lines 319-322: self.locations once the word w of line n is recorded
Recorded(locs, w, n) ==
    [x \in DOMAIN locs \cup {w} |->
        IF x # w THEN locs[x]
        ELSE IF w \in DOMAIN locs THEN Append(locs[w], n) ELSE <<n>>]

\* SpellChecker.send: the request line for a word
RequestLine(w) == <<"^">> \o w \o <<"\n">>

\* check_file, up to the call of _send_words
check_file ==
    /\ pc = "setup"
    /\ pc' = "send"
    /\ UNCHANGED <<cfgVars, splitVars, fileVars, pipeVars, outVars, exc,
                   events, wire>>

\* CodeChecker.set_unique
set_unique(b) ==
    /\ pc = "setup"
    /\ unique' = b
    /\ UNCHANGED <<language, custom_exclude, exclude, exclude_re, splitVars,
                   fileVars, pipeVars, outVars, pc, exc, events, wire>>

\* _send_words, lines 309-318: the next line of the file is read, the
\* language guessed if it is the first, and the line split
send_words_line ==
    /\ pc = "send"
    /\ pending = <<>>
    /\ line_num < Len(file)
    /\ LET l == file[line_num + 1]
           cfg == AfterGuess(l)
       IN  /\ language' = cfg.language
           /\ exclude_re' = cfg.exclude_re
           /\ exclude' = cfg.exclude
           /\ line_num' = line_num + 1
           /\ pending' = split(cfg.exclude_re, cfg.exclude, l)
           /\ emitted' = emitted \o [k \in 1..Len(pending') |->
                                       <<pending'[k], line_num + 1>>]
    /\ UNCHANGED <<custom_exclude, unique, splitVars, file, locations, sentLog,
                   pipeVars, outVars, pc, exc, events, wire>>

\* _send_words, lines 318-324: the next word of the line; a word not seen
\* before is written to ispell_in, which blocks while the pipe is full
send_words_word ==
    /\ pc = "send"
    /\ pending # <<>>
    /\ LET w == Head(pending)
       IN  /\ locations' = Recorded(locations, w, line_num)
           /\ pending' = Tail(pending)
           /\ IF w \in DOMAIN locations
              THEN UNCHANGED <<ispell_in, sentLog, events>>
              ELSE /\ Len(ispell_in) < PipeCap
                   /\ ispell_in' = Append(ispell_in, RequestLine(w))
                   /\ sentLog' = Append(sentLog, w)
                   /\ events' = Append(events, "send")
    /\ UNCHANGED <<cfgVars, splitVars, file, line_num, emitted, in_closed,
                   ispell_out, out_closed, hold, outVars, pc, exc, wire>>

\* _send_words that leaves ispell_in open (a plausible slip)
done_sending_NoClose ==
    /\ pc = "send"
    /\ pending = <<>>
    /\ line_num = Len(file)
    /\ pc' = "check"
    /\ UNCHANGED <<cfgVars, splitVars, fileVars, pipeVars, outVars, exc,
                   events, wire>>

\* _send_words, line 326, and SpellChecker.done_sending; check_file then
\* calls _check, which calls check()
done_sending ==
    /\ pc = "send"
    /\ pending = <<>>
    /\ line_num = Len(file)
    /\ in_closed' = TRUE
    /\ events' = Append(events, "close")
    /\ pc' = "check"
    /\ UNCHANGED <<cfgVars, splitVars, fileVars, ispell_in, ispell_out,
                   out_closed, hold, outVars, exc, wire>>

---------------------------------------------------------------------------
(* ispell -a at the other end of the two pipes: it reads one request line  *)
(* at a time and writes one verdict line for each word it rejects.         *)

W_bin == <<"b","i","n">>
W_python == <<"p","y","t","h","o","n">>
W_perl == <<"p","e","r","l">>
W_pass == <<"p","a","s","s">>
W_parse == <<"p","a","r","s","e">>
W_teh == <<"t","e","h">>
W_adn == <<"a","d","n">>
W_wrod == <<"w","r","o","d">>
W_the == <<"t","h","e">>
W_ten == <<"t","e","n">>
W_and == <<"a","n","d">>
W_word == <<"w","o","r","d">>
Remaining == <<"R","e","m","a","i","n","i","n","g">>

\* the words ispell accepts
Dictionary == {W_bin, W_python, W_perl, W_pass, W_parse, get, Objects}

\* the replacements ispell suggests for a word it rejects
Suggest(w) ==
    CASE w = Remaning -> <<Remaining>>
      [] w = W_teh     -> <<W_the, W_ten>>
      [] w = W_adn     -> <<W_and>>
      [] w = W_wrod    -> <<W_word>>
      [] OTHER         -> <<>>

\* "!": the line SpellChecker.__init__ writes to put ispell in terse mode
TerseLine == <<"!", "\n">>

\* ispell reads a request line; a rejected word gives it a verdict to write
ispell_read ==
    /\ hold = <<>>
    /\ ispell_in # <<>>
    /\ LET l == Head(ispell_in)
           w == SubSeq(l, 2, Len(l) - 1)
       IN  /\ ispell_in' = Tail(ispell_in)
           /\ hold' = IF l[1] = "^" /\ w \notin Dictionary
                      THEN <<Verdict(w, Suggest(w))>>
                      ELSE <<>>
    /\ UNCHANGED <<cfgVars, splitVars, fileVars, in_closed, ispell_out,
                   out_closed, outVars, pc, exc, events, wire>>

\* ispell writes the verdict it holds, which blocks while the pipe is full
ispell_write ==
    /\ hold # <<>>
    /\ Len(ispell_out) < PipeCap
    /\ ispell_out' = Append(ispell_out, hold[1])
    /\ wire' = Append(wire, hold[1])
    /\ hold' = <<>>
    /\ UNCHANGED <<cfgVars, splitVars, fileVars, ispell_in, in_closed,
                   out_closed, outVars, pc, exc, events>>

\* ispell reaches the end of its input and exits
ispell_exit ==
    /\ hold = <<>>
    /\ ispell_in = <<>>
    /\ in_closed
    /\ ~out_closed
    /\ out_closed' = TRUE
    /\ UNCHANGED <<cfgVars, splitVars, fileVars, ispell_in, in_closed,
                   ispell_out, hold, outVars, pc, exc, events, wire>>

---------------------------------------------------------------------------
(* The report: CodeChecker._check.                                         *)

\* the characters with codes 32 to 95
AsciiLow ==
    <<" ","!","\"","#","$","%","&","'","(",")","*","+",",","-",".","/",
      "0","1","2","3","4","5","6","7","8","9",":",";","<","=",">","?","@",
      "A","B","C","D","E","F","G","H","I","J","K","L","M","N","O","P","Q",
      "R","S","T","U","V","W","X","Y","Z","[","\\","]","^","_">>
\* the characters with codes 97 to 126
AsciiHigh ==
    <<"a","b","c","d","e","f","g","h","i","j","k","l","m","n","o","p","q",
      "r","s","t","u","v","w","x","y","z","{","|","}","~">>

\* the character code of c
Ord(c) ==
    IF \E i \in 1..Len(AsciiLow) : AsciiLow[i] = c
    THEN 31 + (CHOOSE i \in 1..Len(AsciiLow) : AsciiLow[i] = c)
    ELSE 96 + (CHOOSE i \in 1..Len(AsciiHigh) : AsciiHigh[i] = c)

RECURSIVE StrLess(_, _)
\* a < b for two str
StrLess(a, b) ==
    IF b = <<>> THEN FALSE
    ELSE IF a = <<>> THEN TRUE
    ELSE IF a[1] = b[1] THEN StrLess(Tail(a), Tail(b))
    ELSE Ord(a[1]) < Ord(b[1])

\* x < y for two (line_num, message) tuples
FindingLess(x, y) == x[1] < y[1] \/ (x[1] = y[1] /\ StrLess(x[2], y[2]))

RECURSIVE Inserted(_, _)
\* the sorted list ms with x put after every element not greater than it
Inserted(ms, x) ==
    IF ms = <<>> THEN <<x>>
    ELSE IF FindingLess(x, Head(ms)) THEN <<x>> \o ms
    ELSE <<Head(ms)>> \o Inserted(Tail(ms), x)

RECURSIVE SortedFrom(_, _)
SortedFrom(done, rest) ==
    IF rest = <<>> THEN done
    ELSE SortedFrom(Inserted(done, Head(rest)), Tail(rest))

\* _check without line 346 (a plausible slip)
sort_None(ms) == ms

\* line 346: messages.sort()
sort(ms) == SortedFrom(<<>>, ms)

\* lines 335-338: the message for a verdict
Message(bad_word, guesses) ==
    IF guesses # <<>>
    THEN bad_word \o <<":", " ">> \o join(CommaSpace, guesses) \o <<" ", "?">>
    ELSE bad_word \o <<" ", "?">>

\* lines 340-344 reporting the last occurrence in unique mode (a plausible slip)
FindingsFor_Last(v, locs, uniq) ==
    IF uniq THEN << <<locs[v[1]][Len(locs[v[1]])], Message(v[1], v[2])>> >>
    ELSE [k \in 1..Len(locs[v[1]]) |-> <<locs[v[1]][k], Message(v[1], v[2])>>]

\* lines 340-344: what one verdict appends to the list messages
FindingsFor(v, locs, uniq) ==
    IF uniq THEN << <<locs[v[1]][1], Message(v[1], v[2])>> >>
    ELSE [k \in 1..Len(locs[v[1]]) |-> <<locs[v[1]][k], Message(v[1], v[2])>>]

\* _check, lines 333-350, once check() has returned its report
report_findings ==
    /\ pc = "checked"
    /\ IF \E k \in 1..Len(report) : report[k][1] \notin DOMAIN locations
       THEN /\ pc' = "raised"
            /\ exc' = "KeyError"
            /\ UNCHANGED <<messages, result>>
       ELSE LET ms == sort(Concat([k \in 1..Len(report) |->
                                      FindingsFor(report[k], locations, unique)]))
            IN  /\ messages' = ms
                /\ result' = (ms # <<>>)
                /\ pc' = "done"
                /\ exc' = exc
    /\ UNCHANGED <<cfgVars, splitVars, fileVars, pipeVars, report, events, wire>>

---------------------------------------------------------------------------
(* SpecFile: one CodeChecker, from its construction to the end of          *)
(* check_file, with ispell running at the other end of the pipes.          *)

FileLines ==
    { \* "#!/usr/bin/python"
      <<"#","!","/","u","s","r","/","b","i","n","/","p","y","t","h","o","n">>,
      \* "#!/usr/bin/perl"
      <<"#","!","/","u","s","r","/","b","i","n","/","p","e","r","l">>,
      \* "def getRemaningObjects(): pass"
      <<"d","e","f"," ","g","e","t","R","e","m","a","n","i","n","g",
        "O","b","j","e","c","t","s","(",")",":"," ","p","a","s","s">>,
      \* "teh = adn"
      <<"t","e","h"," ","="," ","a","d","n">>,
      \* "parse_args(wrod, lenght)"
      <<"p","a","r","s","e","_","a","r","g","s","(","w","r","o","d",","," ",
        "l","e","n","g","h","t",")">> }

RECURSIVE Files(_)
\* every file of at most n lines
Files(n) ==
    IF n = 0 THEN {<<>>}
    ELSE LET shorter == Files(n - 1)
         IN  shorter \cup {Append(f, l) : f \in shorter, l \in FileLines}

\* CodeChecker.__init__ and SpellChecker.__init__
InitFile ==
    /\ InitChecker
    /\ file \in Files(MaxLines)
    /\ pending = <<>> /\ emitted = <<>> /\ sentLog = <<>>
    /\ ispell_in = <<TerseLine>> /\ in_closed = FALSE /\ ispell_out = <<>>
    /\ out_closed = FALSE /\ hold = <<>>
    /\ report = <<>> /\ messages = <<>> /\ result = FALSE
    /\ exc = "none" /\ events = <<>> /\ wire = <<>>
    /\ line = <<>> /\ words = <<>> /\ spans = <<>>
    /\ pc = "setup"

\* the calls made on the CodeChecker before check_file
SetupStrings == {W_teh}
SetupLanguages == {"perl"}

NextFile ==
    \/ \E b \in BOOLEAN : set_unique(b)
    \/ \E s \in SetupStrings : exclude_string(s)
    \/ \E l \in SetupLanguages : set_language(l)
    \/ check_file
    \/ send_words_line
    \/ send_words_word
    \/ done_sending
    \/ ispell_read
    \/ ispell_write
    \/ ispell_exit
    \/ check_readline
    \/ check_eof
    \/ report_findings

SpecFile == InitFile /\ [][NextFile]_vars

---------------------------------------------------------------------------
(* Claims about the conversation with ispell.                              *)

\* _send_words is blocked in send(): the pipe to ispell is full
CheckerBlockedSending ==
    /\ pc = "send"
    /\ pending # <<>>
    /\ Head(pending) \notin DOMAIN locations
    /\ Len(ispell_in) >= PipeCap

\* ispell is blocked writing a verdict: the pipe from ispell is full
EngineBlockedWriting == hold # <<>> /\ Len(ispell_out) >= PipeCap

\* C3: check_file never reaches a state in which the checker is blocked
\* writing a word while ispell is blocked writing a verdict.
C3_NeverBothBlocked == ~(CheckerBlockedSending /\ EngineBlockedWriting)

Indices(e) == {i \in 1..Len(events) : events[i] = e}

\* C4: every send of a word precedes the close of ispell_in, and the close
\* precedes every read of check(): no word is sent after the close, no line
\* is read before it.
C4_SendCloseRead ==
    /\ Cardinality(Indices("close")) <= 1
    /\ \A i \in Indices("send") : \A j \in Indices("close") : i < j
    /\ \A r \in Indices("read") : \E j \in Indices("close") : j < r
    /\ Indices("send") # {} /\ pc \in {"check", "checked", "done"}
           => Indices("close") # {}

\* words were sent, the pipe closed, and a verdict read after that
C4_Witness ==
    /\ pc = "check"
    /\ report # <<>>
    /\ Indices("send") # {}
    /\ Indices("read") # {}

---------------------------------------------------------------------------
(* Claims about the report.                                                *)

\* the verdict a finding comes from: the first verdict with its message
VerdictOf(m) ==
    CHOOSE k \in 1..Len(report) :
        /\ Message(report[k][1], report[k][2]) = m[2]
        /\ \A j \in 1..(k - 1) : Message(report[j][1], report[j][2]) # m[2]

\* C5 as claimed: findings are written in non-decreasing order of line
\* number, and two findings of the same line in the order in which ispell
\* returned their verdicts.
C5_TiesInVerdictOrder ==
    pc = "done" =>
        \A i, j \in 1..Len(messages) :
            i < j =>
                /\ messages[i][1] <= messages[j][1]
                /\ messages[i][1] = messages[j][1]
                       => VerdictOf(messages[i]) <= VerdictOf(messages[j])

\* C5 as amended: findings are written in non-decreasing order of line
\* number, and two findings of the same line in non-decreasing order of
\* their message text (compared as Python compares str).
C5_TiesInMessageOrder ==
    pc = "done" =>
        \A i, j \in 1..Len(messages) :
            i < j =>
                /\ messages[i][1] <= messages[j][1]
                /\ messages[i][1] = messages[j][1]
                       => ~StrLess(messages[j][2], messages[i][2])

\* two findings of one line whose verdicts came in the other order, and a
\* word found on two lines
C5_Witness ==
    /\ pc = "done"
    /\ \E i, j \in 1..Len(messages) :
          /\ i < j
          /\ messages[i][1] = messages[j][1]
          /\ VerdictOf(messages[i]) > VerdictOf(messages[j])
    /\ \E i, j \in 1..Len(messages) :
          messages[i][1] < messages[j][1] /\ messages[i][2] = messages[j][2]

\* the line numbers of the findings with the message m, as written
LinesOf(m) ==
    LET hits == SelectSeq(messages, LAMBDA f : f[2] = m)
    IN  [k \in 1..Len(hits) |-> hits[k][1]]

\* C6: for every verdict ispell returned, _check writes one finding at the
\* first recorded line of the word in unique mode, and otherwise one
\* finding for each entry of the location list of the word; it writes
\* nothing else, and it returns true exactly when it wrote a finding.
C6_FindingsPerVerdict ==
    pc = "done" =>
        /\ \A k \in 1..Len(report) :
              LET w == report[k][1]
              IN  LinesOf(Message(w, report[k][2])) =
                      IF unique THEN <<locations[w][1]>> ELSE locations[w]
        /\ \A i \in 1..Len(messages) :
              \E k \in 1..Len(report) :
                  messages[i][2] = Message(report[k][1], report[k][2])
        /\ result = (Len(messages) >= 1)

\* unique mode, and a rejected word found on two lines
C6_Witness ==
    /\ pc = "done"
    /\ unique
    /\ result
    /\ \E k \in 1..Len(report) :
          /\ Len(locations[report[k][1]]) = 2
          /\ locations[report[k][1]][1] # locations[report[k][1]][2]

---------------------------------------------------------------------------
(* Claims about the file scan.                                             *)

\* the (word, line number) pairs _send_words has handled: all that split()
\* has given it but the words of the current line still pending
Handled == SubSeq(emitted, 1, Len(emitted) - Len(pending))

RECURSIVE FirstSeen(_)
\* the words of a list of (word, line number), each at its first occurrence
FirstSeen(occ) ==
    IF occ = <<>> THEN <<>>
    ELSE LET before == FirstSeen(SubSeq(occ, 1, Len(occ) - 1))
             w == occ[Len(occ)][1]
         IN  IF \E k \in 1..Len(before) : before[k] = w
             THEN before ELSE Append(before, w)

\* C9: at every point of _send_words, every distinct word split() has
\* emitted so far was sent to ispell exactly once, in first-seen order,
\* nothing else was sent, and locations maps exactly these words, each to
\* the non-empty list of the 1-based line numbers of its occurrences in
\* order.
C9_SentOnceAndLocated ==
    pc \in {"send", "check", "checked", "done"} =>
        /\ sentLog = FirstSeen(Handled)
        /\ \A i, j \in 1..Len(sentLog) : sentLog[i] = sentLog[j] => i = j
        /\ DOMAIN locations = {Handled[k][1] : k \in 1..Len(Handled)}
        /\ \A w \in DOMAIN locations :
              LET occ == SelectSeq(Handled, LAMBDA o : o[1] = w)
              IN  /\ locations[w] = [k \in 1..Len(occ) |-> occ[k][2]]
                  /\ Len(locations[w]) >= 1
                  /\ \A k \in 1..Len(locations[w]) :
                        /\ locations[w][k] \in 1..Len(file)
                        /\ Contains(file[locations[w][k]], w)

\* a word found on the first and on the second line, sent once
C9_Witness ==
    /\ pc = "send"
    /\ pending = <<>>
    /\ line_num = 2
    /\ \E w \in DOMAIN locations : locations[w] = <<1, 2>>
    /\ Len(sentLog) >= 2

InCheckFile == pc \in {"send", "check", "checked", "done"}

\* C10: during check_file the language changes only while the first line
\* is handled and only if none was set; a language that is set is never
\* replaced; and once the first line is handled, no step changes the
\* language, the exclusion set or the exclusion pattern.
C10_LanguageFixed ==
    [][InCheckFile =>
          /\ language' # language => line_num = 0 /\ language = None
          /\ language # None => language' = language
          /\ <<exclude, exclude_re>>' # <<exclude, exclude_re>>
                 => line_num = 0 /\ language = None /\ language' # None
          /\ line_num >= 1 =>
                 <<language, exclude, exclude_re>>' = <<language, exclude, exclude_re>>
      ]_vars

\* a C file whose first line is "#!/usr/bin/python", that line handled
C10_Witness ==
    /\ InCheckFile
    /\ line_num >= 1
    /\ language = "c"
    /\ file[1] = <<"#","!","/","u","s","r","/","b","i","n","/","p","y","t","h","o","n">>

====
